---------------------------- MODULE Spec2Model ----------------------------
(***************************************************************************)
(* A model of the Last.fm client of src/lastfm.py: the request executor   *)
(* LastFM.request, the composite operations now_playing and library that   *)
(* fan several executor calls out through asyncio.gather, and the mappers  *)
(* that reshape the decoded JSON.                                          *)
(*                                                                         *)
(* The client keeps no state between calls, so every behaviour is one call *)
(* of one public operation, started from the idle client.                  *)
(***************************************************************************)
EXTENDS Integers, Sequences, FiniteSets, TLC

VARIABLES
    op,         \* the public operation in progress, "idle" before the call
    pc,         \* position of the calling coroutine inside that operation
    data,       \* request(): the decoded body, response.json()
    paramater,  \* request(): the required top-level field (name as in the source)
    out,        \* request(): how the call ended
    gets,       \* number of session.get calls issued so far
    call,       \* request(): the caller's parameters, the dict `request`
    sent,       \* the query parameters of every GET issued, in order
    recent,     \* now_playing: the raw most recent track (track, _track)
    tasks,      \* the awaitables handed to asyncio.gather, in list order
    ready,      \* event loop: tasks scheduled but not yet run, FIFO
    arrival,    \* task indices in the order their responses arrived
    outcome,    \* how the composite call ended
    raw,        \* a mapper's input: the upstream JSON it projects
    mapped      \* a mapper's output

vars == <<op, pc, data, paramater, out, gets, call, sent, recent, tasks, ready,
          arrival, outcome, raw, mapped>>

---------------------------------------------------------------------------
(* Bounds of the model. *)

\* top-level payloads are abstracted to ids 1..MaxPayload; 0 is a falsy payload
MaxPayload == 2

---------------------------------------------------------------------------
(* The request executor, LastFM.request.                                   *)
(* A decoded body is a function from the top-level keys it holds to        *)
(* naturals: the numeric code under "error", a payload id under any other  *)
(* key, where 0 stands for a falsy JSON value ("", {}, [], 0).             *)

LASTFM_ERRORS ==
    (6 :> "User/artist not found") @@
    (8 :> "Backend issue") @@
    (17 :> "Users privacy settings blocking this request") @@
    (26 :> "Access for your account has been suspended, please contact Last.fm") @@
    (13 :> "Invalid method signature supplied") @@
    (16 :> "There was a temporary error processing your request. Please try again") @@
    (29 :> "Rate limit exceeded") @@
    (10 :> "Invalid API key") @@
    (11 :> "Service Offline - This service is temporarily offline. Try again later.") @@
    (3 :> "Invalid method - No method with that name in this package") @@
    (4 :> "Authentication Failed - You do not have permissions to access the service") @@
    (5 :> "Invalid format - This service doesn't exist in that format") @@
    (7 :> "Invalid parameters - Your request is missing a required parameter") @@
    (9 :> "Invalid resource specified") @@
    (15 :> "This token has not been authorized") @@
    (18 :> "There was a temporary error processing your request. Please try again") @@
    (19 :> "You must be logged in to do that") @@
    (20 :> "This operation requires authentication") @@
    (21 :> "You do not have permissions to access the service") @@
    (22 :> "There was a temporary error processing your request. Please try again") @@
    (23 :> "Operation failed - Most likely the backend service failed. Please try again.") @@
    (24 :> "Invalid session key - Please re-authenticate")

\* Python's None where a natural is expected (dict.get on a missing key)
None == -1

\* paramater: str = None; None and "" are both falsy in `if paramater and ...`
NoParamater == ""

\* the empty body, and the value of a call that raised
NoData == [k \in {} |-> 0]

\* data.get(key)
Get(d, key) == IF key \in DOMAIN d THEN d[key] ELSE None

\* bool(v) of a payload
Truthy(v) == v /= None /\ v /= 0

Raise(kind, msg) == [kind |-> kind, msg |-> msg, body |-> NoData]

Return(d) == [kind |-> "return", msg |-> <<>>, body |-> d]

NoOut == [kind |-> "none", msg |-> <<>>, body |-> NoData]

\* the test that guards the code-to-message lookup
HasErrorIndicator(d) == "errors" \in DOMAIN d

\* a slip FieldMissing could hold: only a missing key counts, a falsy value passes
FieldMissingAbsentOnly(d, p) == p /= NoParamater /\ p \notin DOMAIN d

\* the test of the required field
FieldMissing(d, p) == p /= NoParamater /\ ~Truthy(Get(d, p))

\* LastFM.request after response.json(): raise or return data
request(d, p) ==
    IF HasErrorIndicator(d)
    THEN IF Get(d, "error") \in DOMAIN LASTFM_ERRORS
         THEN Raise("LastFMError", <<"Error: ", LASTFM_ERRORS[Get(d, "error")]>>)
         ELSE Raise("KeyError", <<>>)
    ELSE IF FieldMissing(d, p)
         THEN Raise("LastFMError", <<"Error: ", p, " not found">>)
         ELSE Return(d)

---------------------------------------------------------------------------
(* The bodies the upstream service may answer with. *)

\* codes the table does not hold
UnmappedCodes == {2, 99}

Absent == None

\* a body with the given entries; Absent leaves the key out
Body(error, errors, user, artist) ==
    LET present == {k \in {"error", "errors", "user", "artist"} :
                      \/ k = "error" /\ error /= Absent
                      \/ k = "errors" /\ errors /= Absent
                      \/ k = "user" /\ user /= Absent
                      \/ k = "artist" /\ artist /= Absent}
    IN  [k \in present |->
            CASE k = "error" -> error
              [] k = "errors" -> errors
              [] k = "user" -> user
              [] OTHER -> artist]

Bodies ==
    {Body(e, es, u, a) :
        e \in {Absent} \cup DOMAIN LASTFM_ERRORS \cup UnmappedCodes,
        es \in {Absent, 1},
        u \in {Absent} \cup (0..MaxPayload),
        a \in {Absent} \cup (0..MaxPayload)}

Paramaters == {NoParamater, "user", "artist"}

---------------------------------------------------------------------------
(* The composite operations, now_playing and library, on the asyncio event *)
(* loop.  A coroutine appended to `tasks` has not run; asyncio.gather      *)
(* wraps each in a task and schedules it; the loop runs every scheduled    *)
(* task up to its session.get before it polls the sockets again, and then  *)
(* responses arrive in any order.  Payload ids stand for well-formed       *)
(* subtrees; the projection of a subtree is modelled with the mappers.     *)

\* what the upstream may answer to a sub-request that requires field p
TaskBodies(p) ==
    {[k \in {p} |-> v] : v \in 0..MaxPayload}
        \cup {[k \in {"error"} |-> 6],
              [k \in {"error", "errors"} |-> IF k = "error" THEN 6 ELSE 1],
              [k \in {"error", "errors"} |-> IF k = "error" THEN 99 ELSE 1]}

\* the album name of the raw most recent track, track["album"]["#text"]
AlbumTexts == {"", "Album"}

\* a coroutine object: self.request(..., p) or self.library_x(...), not yet run
Coroutine(p) == [paramater |-> p, st |-> "created", value |-> NoData, raised |-> ""]

\* now_playing: the list `tasks`; the album request only for a non-empty album name
NowPlayingTasks(track) ==
    <<Coroutine("user"), Coroutine("track"), Coroutine("artist")>>
        \o (IF track.album /= "" THEN <<Coroutine("album")>> ELSE <<>>)

\* library: the list `tasks`
LibraryTasks ==
    <<Coroutine("topartists"), Coroutine("topalbums"),
      Coroutine("toptracks"), Coroutine("toptags")>>

Failure(kind) == [kind |-> kind, result |-> NoData]

Success(result) == [kind |-> "return", result |-> result]

\* a slip of gather: exceptions collected as results (return_exceptions=True)
GatherNeverRaises(ts) == FALSE

\* asyncio.gather raises the first exception one of its awaitables raised
GatherRaises(ts) == \E j \in DOMAIN ts : ts[j].st = "failed"

AllDone(ts) == \A j \in DOMAIN ts : ts[j].st \in {"ok", "failed"}

\* a slip of gather: results in the order the awaitables completed
GatherInArrivalOrder(ts, arr) == [j \in DOMAIN ts |-> ts[arr[j]].value]

\* asyncio.gather returns the results in the order of the awaitables
Gather(ts, arr) == [j \in DOMAIN ts |-> ts[j].value]

\* now_playing from the unpacking of the gathered results to the return
NowPlayingAssemble(results, track0) ==
    IF Len(results) /= 4
    THEN Failure("ValueError")
    ELSE LET user == results[1]
             track == results[2]
             artist == results[3]
             album == results[4]
         IN  IF \/ "track" \notin DOMAIN track
                \/ "user" \notin DOMAIN user
                \/ "artist" \notin DOMAIN artist
                \/ (album /= NoData /\ "album" \notin DOMAIN album)
             THEN Failure("KeyError")
             ELSE Success(
                 [k \in {"url", "name", "image", "plays", "playing", "artist", "user"}
                        \cup (IF album /= NoData THEN {"album"} ELSE {}) |->
                     CASE k \in {"url", "name", "plays"} -> track["track"]
                       [] k \in {"image", "playing"} -> track0.id
                       [] k = "artist" -> artist["artist"]
                       [] k = "album" -> album["album"]
                       [] OTHER -> user["user"]])

\* library from the unpacking of the gathered results to the return
LibraryAssemble(results) ==
    LET artists == results[1]
        albums == results[2]
        tracks == results[3]
        tags == results[4]
    IN  Success([k \in {"artists", "albums", "tracks", "tags"} |->
                    CASE k = "artists" -> artists
                      [] k = "albums" -> albums
                      [] k = "tracks" -> tracks
                      [] OTHER -> tags])

---------------------------------------------------------------------------
(* The mappers.  Strings the mappers test or rewrite are sequences of      *)
(* characters; a field that is only copied keeps a plain string.  An       *)
(* output value is tagged with its Python type, so that None, a str and a  *)
(* dict are told apart.                                                    *)

\* items of an upstream array, and variants of an image list, per list
MaxItems == 2
MaxImages == 2
\* tracks of a recent-tracks page
MaxTracks == 1

PyNone == [t |-> "None", v |-> <<>>]

Str(s) == [t |-> "str", v |-> s]

\* {"url": u}
UrlDict(u) == [t |-> "dict", v |-> u]

\* s or None
OrNone(s) == IF s /= <<>> THEN Str(s) ELSE PyNone

PNG == <<".", "p", "n", "g">>

GIF == <<".", "g", "i", "f">>

\* str.replace(old, new): every non-overlapping occurrence, left to right
RECURSIVE Replace(_, _, _)
Replace(s, old, new) ==
    IF Len(s) < Len(old)
    THEN s
    ELSE IF SubSeq(s, 1, Len(old)) = old
         THEN new \o Replace(SubSeq(s, Len(old) + 1, Len(s)), old, new)
         ELSE <<Head(s)>> \o Replace(Tail(s), old, new)

\* a slip of the image selection: the first (smallest) variant
FirstVariant(image) == image[1]

\* image[-1]
LastVariant(image) == image[Len(image)]

\* x["image"][-1]["#text"] or None
ImageOrNone(image) == OrNone(LastVariant(image).text)

\* x["image"][-1]["#text"].replace(".png", ".gif") or None
Avatar(image) == OrNone(Replace(LastVariant(image).text, PNG, GIF))

\* {"url": t["image"][-1]["#text"]} if t["image"][-1].get("#text") else None
TrackImage(image) ==
    IF LastVariant(image).text /= <<>>
    THEN UrlDict(LastVariant(image).text)
    ELSE PyNone

\* not bool(t.get("date")): a missing key gives None, an empty value is falsy too
Playing(t) == ~(t.hasDate /\ t.date /= NoData)

\* [{"name": x["name"], "url": x["url"]} for x in field], field a list or a dict:
\* iterating a dict yields its keys, and a str subscripted by "name" raises
NameUrlList(field) ==
    IF field.isDict
    THEN [kind |-> "TypeError", value |-> <<>>]
    ELSE [kind |-> "return",
          value |-> [j \in DOMAIN field.items |->
                        [name |-> field.items[j].name, url |-> field.items[j].url]]]

\* the tracks of now_playing's album part: [] for a missing field or a single dict
AlbumTracks(album) ==
    IF album.hasTracks /\ ~album.tracks.isDict
    THEN [j \in DOMAIN album.tracks.items |->
            [url |-> album.tracks.items[j].url, name |-> album.tracks.items[j].name]]
    ELSE <<>>

Returned(value) == [kind |-> "return", value |-> value]

\* profile: the optional fields of the returned record
profile(user) ==
    Returned([government |-> OrNone(user.realname),
              avatar |-> Avatar(user.image),
              country |-> OrNone(user.country)])

\* now_playing: the track part of the response, read from _track
now_playing_track(t) ==
    Returned([image |-> TrackImage(t.image), playing |-> Playing(t)])

\* now_playing: the artist part
now_playing_artist(artist) == Returned([image |-> ImageOrNone(artist.image)])

\* now_playing: the album part
now_playing_album(album) ==
    Returned([image |-> ImageOrNone(album.image), tracks |-> AlbumTracks(album)])

\* now_playing: the user part
now_playing_user(user) ==
    Returned([full_name |-> OrNone(user.realname),
              avatar |-> Avatar(user.image),
              country |-> IF user.country /= <<"N", "o", "n", "e">>
                          THEN Str(user.country) ELSE PyNone])

\* get_artist: the image and the four repeated fields; the first comprehension
\* that raises ends the call
get_artist(artist) ==
    LET tags == NameUrlList(artist.tags)
        similar == NameUrlList(artist.similar)
        tracks == NameUrlList(artist.toptracks)
        albums == NameUrlList(artist.topalbums)
    IN  IF \E r \in {tags, similar, tracks, albums} : r.kind /= "return"
        THEN [kind |-> "TypeError", value |-> <<>>]
        ELSE Returned([image |-> ImageOrNone(artist.image),
                       tags |-> tags.value,
                       similar |-> similar.value,
                       tracks |-> tracks.value,
                       albums |-> albums.value])

\* recent_tracks: image and playing state of every track of the page, in order
recent_tracks(page) ==
    Returned([j \in DOMAIN page |->
                [image |-> TrackImage(page[j].image), playing |-> Playing(page[j])]])

---------------------------------------------------------------------------
(* The upstream JSON the mappers are applied to. *)

SeqsUpTo(S, lo, hi) == UNION {[1..n -> S] : n \in lo..hi}

Urls ==
    {<<>>,
     <<"u", ".", "p", "n", "g">>,
     <<"u", ".", "j", "p", "g">>,
     <<"a", ".", "p", "n", "g", "/", "b">>}

\* an image list is never empty upstream: one variant per size
ImageLists == SeqsUpTo([text : Urls], 1, MaxImages)

\* realname and country: empty, the literal "None", or a value
Scalars == {<<>>, <<"N", "o", "n", "e">>, <<"A", "l">>}

RawUsers == [realname : Scalars, country : Scalars, image : ImageLists]

\* "date" missing, present and empty, or the timestamp of a scrobble
RawTracks ==
    {[hasDate |-> h, date |-> d, image |-> im] :
        h \in BOOLEAN,
        d \in {NoData, [k \in {"uts"} |-> 1700000000]},
        im \in ImageLists} \ {t \in [hasDate : {FALSE},
                                     date : {[k \in {"uts"} |-> 1700000000]},
                                     image : ImageLists] : TRUE}

Items ==
    {[name |-> "rock", url |-> "u", count |-> "1"],
     [name |-> "pop", url |-> "v", count |-> "2"]}

\* a repeated field: the single object itself, or an array of objects
Repeated ==
    {[isDict |-> TRUE, items |-> <<x>>] : x \in Items}
        \cup {[isDict |-> FALSE, items |-> xs] : xs \in SeqsUpTo(Items, 0, MaxItems)}

\* both upstream shapes of a repeated field, one sample of each
BothShapes ==
    {[isDict |-> TRUE, items |-> <<CHOOSE x \in Items : x.name = "rock">>],
     [isDict |-> FALSE, items |-> <<CHOOSE x \in Items : x.name = "pop",
                                    CHOOSE x \in Items : x.name = "rock">>]}

RawAlbums ==
    {[image |-> im, hasTracks |-> h, tracks |-> tr] :
        im \in ImageLists, h \in BOOLEAN, tr \in Repeated}
        \ {a \in [image : ImageLists, hasTracks : {FALSE}, tracks : Repeated] :
             a.tracks /= [isDict |-> FALSE, items |-> <<>>]}

RawArtists ==
    [image : ImageLists, tags : Repeated, similar : BothShapes,
     toptracks : BothShapes, topalbums : BothShapes]

---------------------------------------------------------------------------
(* The HTTP GET of the executor and the parameters the operations pass.    *)
(* Query values are the strings the URL carries.                           *)

\* getenv("LASTFM_APIKEY")
ApiKey == "0123456789abcdef"

\* params = {"api_key": ..., "format": "json", **request}: a key of the
\* caller's dict replaces the same key written before it
Params(req) ==
    req @@ [k \in {"api_key", "format"} |-> IF k = "api_key" THEN ApiKey ELSE "json"]

\* a slip of the executor: the GET is issued again
SessionGetRetried(log, query) == Append(Append(log, query), query)

\* await self.session.get(url=LastFMurl, params=query): one GET on the wire
SessionGet(log, query) == Append(log, query)

Username == "alice"

\* the dict each operation builds for the executor
UserGetInfo == [method |-> "user.getInfo", username |-> Username]

NowPlayingRecent ==
    [method |-> "user.getRecentTracks", username |-> Username, limit |-> "1"]

TrackGetInfo ==
    [method |-> "track.getInfo", username |-> Username, artist |-> "Artist",
     track |-> "Track"]

ArtistGetInfoFor ==
    [method |-> "artist.getInfo", username |-> Username, artist |-> "Artist"]

AlbumGetInfoFor ==
    [method |-> "album.getInfo", username |-> Username, artist |-> "Artist",
     album |-> "Album"]

ArtistGetInfo == [method |-> "artist.getInfo", artist |-> "Artist"]

RecentTracksRequest ==
    [method |-> "user.getRecentTracks", username |-> Username, limit |-> "1000",
     autoscorrect |-> "1"]

AlbumGetInfo == [method |-> "album.getInfo", username |-> Username, album |-> "Album"]

TagGetInfo == [method |-> "tag.getInfo", tag |-> "rock"]

\* top_artists, library_artists and the like: a method, a period and a limit
TopList(method) ==
    [method |-> method, username |-> Username, period |-> "overall", limit |-> "1000"]

\* the dict of the sub-request of a composite operation, by its required field
TaskRequest(p) ==
    CASE p = "user" -> UserGetInfo
      [] p = "track" -> TrackGetInfo
      [] p = "artist" -> ArtistGetInfoFor
      [] p = "album" -> AlbumGetInfoFor
      [] p = "topartists" -> TopList("user.getTopArtists")
      [] p = "topalbums" -> TopList("user.getTopAlbums")
      [] p = "toptracks" -> TopList("user.getTopTracks")
      [] OTHER -> TopList("user.getTopTags")

\* the dicts the public operations pass to the executor
Requests ==
    {UserGetInfo, NowPlayingRecent, TrackGetInfo, ArtistGetInfoFor, AlbumGetInfoFor,
     ArtistGetInfo, RecentTracksRequest, AlbumGetInfo, TagGetInfo}
        \cup {TaskRequest(p) : p \in {"topartists", "topalbums", "toptracks", "toptags"}}

\* no call of the executor yet
NoCall == [k \in {} |-> ""]

---------------------------------------------------------------------------
Init ==
    /\ op = "idle"
    /\ pc = "idle"
    /\ data = NoData
    /\ paramater = NoParamater
    /\ out = NoOut
    /\ gets = 0
    /\ call = NoCall
    /\ sent = <<>>
    /\ recent = [id |-> 0, album |-> ""]
    /\ tasks = <<>>
    /\ ready = <<>>
    /\ arrival = <<>>
    /\ outcome = Failure("none")
    /\ raw = <<>>
    /\ mapped = <<>>

\* one call of the executor: one GET, the decoded body d, then raise or return
Request ==
    /\ op = "idle"
    /\ \E req \in Requests, d \in Bodies, p \in Paramaters :
        /\ op' = "request"
        /\ pc' = "done"
        /\ call' = req
        /\ sent' = SessionGet(sent, Params(req))
        /\ data' = d
        /\ paramater' = p
        /\ gets' = gets + 1
        /\ out' = request(d, p)
    /\ UNCHANGED <<recent, tasks, ready, arrival, outcome, raw, mapped>>

\* now_playing up to its first await: the user.getRecentTracks request is issued
NowPlayingCall ==
    /\ op = "idle"
    /\ op' = "now_playing"
    /\ pc' = "recent"
    /\ gets' = gets + 1
    /\ sent' = SessionGet(sent, Params(NowPlayingRecent))
    /\ UNCHANGED <<data, paramater, out, call, recent, tasks, ready, arrival, outcome,
                   raw, mapped>>

\* the recent tracks arrive: the call fails with the request, or builds `tasks`
\* from the most recent track and awaits asyncio.gather(*tasks)
RecentResponse ==
    /\ op = "now_playing"
    /\ pc = "recent"
    /\ \E d \in TaskBodies("recenttracks"), a \in AlbumTexts :
        LET o == request(d, "recenttracks")
            track == [id |-> d["recenttracks"], album |-> a]
        IN  IF o.kind /= "return"
            THEN /\ pc' = "done"
                 /\ outcome' = Failure(o.kind)
                 /\ UNCHANGED <<recent, tasks, ready>>
            ELSE /\ pc' = "gather"
                 /\ recent' = track
                 /\ tasks' = NowPlayingTasks(track)
                 /\ ready' = [j \in 1..Len(NowPlayingTasks(track)) |-> j]
                 /\ UNCHANGED outcome
    /\ UNCHANGED <<op, data, paramater, out, gets, call, sent, arrival, raw, mapped>>

\* library up to its await: four coroutines, handed to asyncio.gather
LibraryCall ==
    /\ op = "idle"
    /\ op' = "library"
    /\ pc' = "gather"
    /\ tasks' = LibraryTasks
    /\ ready' = [j \in 1..Len(LibraryTasks) |-> j]
    /\ UNCHANGED <<data, paramater, out, gets, call, sent, recent, arrival, outcome,
                   raw, mapped>>

\* the loop runs the next scheduled task up to its session.get
StartTask ==
    /\ ready /= <<>>
    /\ tasks' = [tasks EXCEPT ![Head(ready)].st = "inflight"]
    /\ ready' = Tail(ready)
    /\ gets' = gets + 1
    /\ sent' = SessionGet(sent, Params(TaskRequest(tasks[Head(ready)].paramater)))
    /\ UNCHANGED <<op, pc, data, paramater, out, call, recent, arrival, outcome,
                   raw, mapped>>

\* the response of task i arrives: its request raises or returns, and gather
\* resumes the caller at the first exception or when every task has finished
Complete(i) ==
    /\ op \in {"now_playing", "library"}
    /\ ready = <<>>
    /\ i \in DOMAIN tasks
    /\ tasks[i].st = "inflight"
    /\ \E d \in TaskBodies(tasks[i].paramater) :
        LET o == request(d, tasks[i].paramater)
            t == IF o.kind = "return"
                 THEN [tasks[i] EXCEPT !.st = "ok", !.value = o.body]
                 ELSE [tasks[i] EXCEPT !.st = "failed", !.raised = o.kind]
            ts == [tasks EXCEPT ![i] = t]
            arr == Append(arrival, i)
        IN  /\ tasks' = ts
            /\ arrival' = arr
            /\ IF pc = "gather" /\ GatherRaises(ts)
               THEN /\ pc' = "done"
                    /\ outcome' = Failure(t.raised)
               ELSE IF pc = "gather" /\ AllDone(ts)
               THEN /\ pc' = "done"
                    /\ outcome' = IF op = "library"
                                  THEN LibraryAssemble(Gather(ts, arr))
                                  ELSE NowPlayingAssemble(Gather(ts, arr), recent)
               ELSE UNCHANGED <<pc, outcome>>
    /\ UNCHANGED <<op, data, paramater, out, gets, call, sent, recent, ready, raw,
                   mapped>>

\* a mapper applied to the payload x of a successful request
Map(name, x, y) ==
    /\ op' = name
    /\ pc' = "done"
    /\ raw' = x
    /\ mapped' = y
    /\ UNCHANGED <<data, paramater, out, call, recent, tasks, ready, arrival, outcome>>

\* profile(username): one request, then the projection of response["user"]
CallProfile ==
    /\ op = "idle"
    /\ \E user \in RawUsers : Map("profile", user, profile(user))
    /\ gets' = gets + 1
    /\ sent' = SessionGet(sent, Params(UserGetInfo))

\* get_artist(artist): one request, then the projection of response["artist"]
CallGetArtist ==
    /\ op = "idle"
    /\ \E artist \in RawArtists : Map("get_artist", artist, get_artist(artist))
    /\ gets' = gets + 1
    /\ sent' = SessionGet(sent, Params(ArtistGetInfo))

\* recent_tracks(username): one request, then the projection of every track
CallRecentTracks ==
    /\ op = "idle"
    /\ \E page \in SeqsUpTo(RawTracks, 0, MaxTracks) :
        Map("recent_tracks", page, recent_tracks(page))
    /\ gets' = gets + 1
    /\ sent' = SessionGet(sent, Params(RecentTracksRequest))

\* the assembly of now_playing, part by part
MapNowPlayingTrack ==
    /\ op = "idle"
    /\ \E t \in RawTracks : Map("now_playing_track", t, now_playing_track(t))
    /\ UNCHANGED <<gets, sent>>

MapNowPlayingArtist ==
    /\ op = "idle"
    /\ \E image \in ImageLists :
        Map("now_playing_artist", [image |-> image],
            now_playing_artist([image |-> image]))
    /\ UNCHANGED <<gets, sent>>

MapNowPlayingAlbum ==
    /\ op = "idle"
    /\ \E album \in RawAlbums : Map("now_playing_album", album, now_playing_album(album))
    /\ UNCHANGED <<gets, sent>>

MapNowPlayingUser ==
    /\ op = "idle"
    /\ \E user \in RawUsers : Map("now_playing_user", user, now_playing_user(user))
    /\ UNCHANGED <<gets, sent>>

Next ==
    \/ Request
    \/ NowPlayingCall
    \/ RecentResponse
    \/ LibraryCall
    \/ StartTask
    \/ \E i \in 1..4 : Complete(i)
    \/ MapNowPlayingTrack
    \/ MapNowPlayingArtist
    \/ MapNowPlayingAlbum
    \/ MapNowPlayingUser
    \/ CallProfile
    \/ CallGetArtist
    \/ CallRecentTracks

Spec == Init /\ [][Next]_vars

---------------------------------------------------------------------------
(* Properties of the request executor. *)

RequestDone == op = "request" /\ pc = "done"

\* the messages the executor builds from the table
MappedMessages == {<<"Error: ", LASTFM_ERRORS[c]>> : c \in DOMAIN LASTFM_ERRORS}

\* C1: when the decoded body is the error object {"error": code} with code in
\* LASTFM_ERRORS, the call raises LastFMError carrying the table entry of that
\* code, and does not return the body.
C1_MappedErrorRaises ==
    (RequestDone /\ DOMAIN data = {"error"} /\ data["error"] \in DOMAIN LASTFM_ERRORS)
        => /\ out.kind = "LastFMError"
           /\ \E i \in DOMAIN out.msg : out.msg[i] = LASTFM_ERRORS[data["error"]]

\* C2: when the decoded body carries an error code the table does not hold, the
\* call raises LastFMError with a message no mapped error has; it neither
\* returns the body nor raises another kind of exception.
C2_UnmappedErrorRaises ==
    (RequestDone /\ "error" \in DOMAIN data /\ data["error"] \notin DOMAIN LASTFM_ERRORS)
        => /\ out.kind = "LastFMError"
           /\ out.msg \notin MappedMessages

\* C3: a call with a required field, on a body without the error indicator the
\* executor tests: the field absent or falsy raises LastFMError with a message
\* that names the field; the field present and truthy returns the body as decoded.
C3_RequiredField ==
    (RequestDone /\ paramater /= NoParamater /\ ~HasErrorIndicator(data))
        => IF paramater \in DOMAIN data /\ data[paramater] /= 0
           THEN out.kind = "return" /\ out.body = data
           ELSE /\ out.kind = "LastFMError"
                /\ \E i \in DOMAIN out.msg : out.msg[i] = paramater

\* C3 witness: the field is present but falsy, and the call raised naming it
C3_Witness ==
    /\ RequestDone
    /\ paramater = "user"
    /\ ~HasErrorIndicator(data)
    /\ "user" \in DOMAIN data
    /\ data["user"] = 0
    /\ out.kind = "LastFMError"
    /\ out.msg = <<"Error: ", "user", " not found">>

---------------------------------------------------------------------------
(* Properties of the composite operations. *)

AllOk == tasks /= <<>> /\ \A j \in DOMAIN tasks : tasks[j].st = "ok"

\* the body returned to the sub-request that required field p
RoleValue(p) ==
    LET j == CHOOSE j \in DOMAIN tasks : tasks[j].paramater = p
    IN  tasks[j].value

\* C4: now_playing, when the raw most recent track has an empty album name and
\* every issued sub-request succeeded, returns a result without an "album" key
\* that holds the track, artist and user parts.
C4_EmptyAlbumReturns ==
    (op = "now_playing" /\ pc = "done" /\ recent.album = "" /\ AllOk)
        => /\ outcome.kind = "return"
           /\ "album" \notin DOMAIN outcome.result
           /\ {"url", "name", "artist", "user"} \subseteq DOMAIN outcome.result

\* C5: library hands exactly 4 sub-requests to gather, every one of them has
\* issued its GET before any response is taken, and as soon as one of them fails
\* the call fails: it returns a record only when all 4 succeeded, and then it does.
C5_LibraryAllOrNothing ==
    op = "library"
        => /\ Len(tasks) = 4
           /\ {tasks[j].paramater : j \in DOMAIN tasks}
                = {"topartists", "topalbums", "toptracks", "toptags"}
           /\ gets <= 4
           /\ (\E j \in DOMAIN tasks : tasks[j].st \in {"ok", "failed"})
                => /\ \A j \in DOMAIN tasks : tasks[j].st /= "created"
                   /\ gets = 4
           /\ (\E j \in DOMAIN tasks : tasks[j].st = "failed")
                => pc = "done" /\ outcome.kind \in {"LastFMError", "KeyError"}
           /\ outcome.kind = "return" => AllOk
           /\ AllOk => pc = "done" /\ outcome.kind = "return"

\* C5 witness: three sub-requests succeeded, the last response failed, the call failed
C5_Witness ==
    /\ op = "library"
    /\ pc = "done"
    /\ arrival = <<3, 1, 2, 4>>
    /\ \A j \in 1..3 : tasks[j].st = "ok"
    /\ tasks[4].st = "failed"
    /\ outcome.kind = "LastFMError"

\* C6: whatever the order in which the responses arrived, a composite call whose
\* sub-requests all succeeded returns the record that holds, in each slot, the
\* response of the sub-request of that role.
C6_SlotsByRole ==
    /\ (op = "library" /\ pc = "done" /\ AllOk)
        => /\ outcome.kind = "return"
           /\ outcome.result["artists"] = RoleValue("topartists")
           /\ outcome.result["albums"] = RoleValue("topalbums")
           /\ outcome.result["tracks"] = RoleValue("toptracks")
           /\ outcome.result["tags"] = RoleValue("toptags")
    /\ (op = "now_playing" /\ pc = "done" /\ AllOk /\ Len(tasks) = 4)
        => /\ outcome.kind = "return"
           /\ outcome.result["user"] = RoleValue("user")["user"]
           /\ outcome.result["artist"] = RoleValue("artist")["artist"]
           /\ outcome.result["album"] = RoleValue("album")["album"]
           /\ \A k \in {"url", "name", "plays"} :
                outcome.result[k] = RoleValue("track")["track"]

\* C6 witness: now_playing returned after the responses arrived album first, user last
C6_Witness ==
    /\ op = "now_playing"
    /\ pc = "done"
    /\ arrival = <<4, 3, 2, 1>>
    /\ outcome.kind = "return"
    /\ outcome.result["user"] = 1
    /\ outcome.result["album"] = 2

---------------------------------------------------------------------------
(* Properties of the mappers. *)

\* the projection of every object of a repeated field, in order
NameUrls(items) ==
    [j \in DOMAIN items |-> [name |-> items[j].name, url |-> items[j].url]]

\* C7: a mapper of a repeated field handles both upstream shapes: a single
\* object maps to the one-element sequence of its projection, an array maps to
\* the projections of all its elements in order (get_artist's four repeated
\* fields, the tracks of now_playing's album).
C7_ListOrSingle ==
    /\ op = "get_artist"
        => /\ mapped.kind = "return"
           /\ mapped.value.tags = NameUrls(raw.tags.items)
           /\ mapped.value.similar = NameUrls(raw.similar.items)
           /\ mapped.value.tracks = NameUrls(raw.toptracks.items)
           /\ mapped.value.albums = NameUrls(raw.topalbums.items)
    /\ (op = "now_playing_album" /\ raw.hasTracks)
        => mapped.value.tracks = NameUrls(raw.tracks.items)

\* C8: in now_playing and recent_tracks a mapped track has playing = true
\* exactly when its raw track has no "date" key, whatever the value under the key.
C8_PlayingIffNoDate ==
    /\ op = "now_playing_track" => mapped.value.playing = ~raw.hasDate
    /\ op = "recent_tracks"
        => \A j \in DOMAIN raw : mapped.value[j].playing = ~raw[j].hasDate

\* the URL of the last variant of an image list
LastText(image) == image[Len(image)].text

\* a URL whose ".png" extension, if it ends in one, is replaced by ".gif"
SwapExtension(u) ==
    IF Len(u) >= 4 /\ SubSeq(u, Len(u) - 3, Len(u)) = PNG
    THEN SubSeq(u, 1, Len(u) - 4) \o GIF
    ELSE u

\* position i of u lies off characters after the start of an occurrence of ".png"
InPng(u, i, off) ==
    \E start \in 1..(Len(u) - 3) : SubSeq(u, start, start + 3) = PNG /\ i = start + off

\* u with every occurrence of ".png" turned into ".gif", position by position
EveryPngSwapped(u) ==
    [i \in 1..Len(u) |->
        IF InPng(u, i, 1) THEN "g"
        ELSE IF InPng(u, i, 2) THEN "i"
        ELSE IF InPng(u, i, 3) THEN "f"
        ELSE u[i]]

\* an operation returned a record that has an image field read from raw.image
MappedImage ==
    \/ op \in {"now_playing_artist", "now_playing_album"}
    \/ op = "get_artist" /\ mapped.kind = "return"

\* C9 as stated: every image field is the URL string of the last variant, or
\* absence for an empty URL; a profile avatar is that URL with its ".png"
\* extension replaced by ".gif".
C9_ImageStringOrAbsent ==
    /\ MappedImage
        => mapped.value.image
            = (IF LastText(raw.image) = <<>> THEN PyNone ELSE Str(LastText(raw.image)))
    /\ op = "now_playing_track"
        => mapped.value.image
            = (IF LastText(raw.image) = <<>> THEN PyNone ELSE Str(LastText(raw.image)))
    /\ op = "recent_tracks"
        => \A j \in DOMAIN raw :
            mapped.value[j].image
                = (IF LastText(raw[j].image) = <<>>
                   THEN PyNone ELSE Str(LastText(raw[j].image)))
    /\ op \in {"profile", "now_playing_user"}
        => mapped.value.avatar
            = (IF LastText(raw.image) = <<>>
               THEN PyNone ELSE Str(SwapExtension(LastText(raw.image))))

\* C9 as amended: every image field is read from the last variant, and an empty
\* URL maps to absence, never to ""; a non-empty URL maps to the URL string,
\* except that the track image of now_playing and recent_tracks is the object
\* {"url": URL}; a profile avatar is the URL with every occurrence of ".png",
\* not only a trailing extension, replaced by ".gif".
C9_ImageFromLastVariant ==
    /\ MappedImage
        => mapped.value.image
            = (IF LastText(raw.image) = <<>> THEN PyNone ELSE Str(LastText(raw.image)))
    /\ op = "now_playing_track"
        => mapped.value.image
            = (IF LastText(raw.image) = <<>> THEN PyNone ELSE UrlDict(LastText(raw.image)))
    /\ op = "recent_tracks"
        => \A j \in DOMAIN raw :
            mapped.value[j].image
                = (IF LastText(raw[j].image) = <<>>
                   THEN PyNone ELSE UrlDict(LastText(raw[j].image)))
    /\ op \in {"profile", "now_playing_user"}
        => mapped.value.avatar
            = (IF LastText(raw.image) = <<>>
               THEN PyNone ELSE Str(EveryPngSwapped(LastText(raw.image))))

\* C9 witness: a profile whose image list ends in a URL with ".png" inside it,
\* after a smaller variant with another URL; the avatar has ".gif" in its place
C9_Witness ==
    /\ op = "profile"
    /\ raw.image = <<[text |-> <<"u", ".", "j", "p", "g">>],
                     [text |-> <<"a", ".", "p", "n", "g", "/", "b">>]>>
    /\ mapped.value.avatar = Str(<<"a", ".", "g", "i", "f", "/", "b">>)

\* the single absence value for the empty string and the literal "None"
Normalized(s) == IF s \in {<<>>, <<"N", "o", "n", "e">>} THEN PyNone ELSE Str(s)

\* C10: profile and the user part of now_playing map both no-value spellings of
\* real name and country, "" and "None", to absence, and pass any other string on.
C10_AbsentScalars ==
    /\ op = "profile"
        => /\ mapped.value.government = Normalized(raw.realname)
           /\ mapped.value.country = Normalized(raw.country)
    /\ op = "now_playing_user"
        => /\ mapped.value.full_name = Normalized(raw.realname)
           /\ mapped.value.country = Normalized(raw.country)

---------------------------------------------------------------------------
(* Properties of the GETs issued. *)

\* the sub-requests of a composite call that have run up to their session.get
Started == {j \in DOMAIN tasks : tasks[j].st /= "created"}

\* C11: every call of the executor issues exactly one GET, whose query holds the
\* API key and format=json beside the caller's parameters, and none after it,
\* whatever the outcome (return, mapped or unmapped upstream error, missing
\* field); so profile, get_artist and recent_tracks issue one GET per call, and a
\* composite call one per executor call it has started.
C11_OneGetPerCall ==
    /\ \A j \in DOMAIN sent :
        /\ sent[j]["api_key"] = "0123456789abcdef"
        /\ sent[j]["format"] = "json"
        /\ "method" \in DOMAIN sent[j]
    /\ RequestDone
        => /\ Len(sent) = 1
           /\ DOMAIN sent[1] = DOMAIN call \cup {"api_key", "format"}
           /\ \A k \in DOMAIN call : sent[1][k] = call[k]
    /\ op \in {"profile", "get_artist", "recent_tracks"}
        => /\ Len(sent) = 1
           /\ sent[1]["method"] = (CASE op = "profile" -> "user.getInfo"
                                     [] op = "get_artist" -> "artist.getInfo"
                                     [] OTHER -> "user.getRecentTracks")
    /\ op = "now_playing" => Len(sent) = 1 + Cardinality(Started)
    /\ op = "library" => Len(sent) = Cardinality(Started)
    /\ op \in {"now_playing", "library"}
        => \A j \in Started :
            \E n \in DOMAIN sent :
                \A k \in DOMAIN TaskRequest(tasks[j].paramater) :
                    k \in DOMAIN sent[n]
                        /\ sent[n][k] = TaskRequest(tasks[j].paramater)[k]

\* C11 witness: an executor call that ended in an unmapped upstream error, after
\* its one GET with the key, the format and the caller's four parameters
C11_Witness ==
    /\ RequestDone
    /\ out.kind = "KeyError"
    /\ Len(sent) = 1
    /\ sent[1] = [api_key |-> "0123456789abcdef", format |-> "json",
                  method |-> "track.getInfo", username |-> "alice",
                  artist |-> "Artist", track |-> "Track"]

===========================================================================
